---- MODULE Spec2Model ----
(***************************************************************************)
(* SMS gateway automation: the messenger webhook (messenger_server.py)     *)
(* parses a text command, forwards it over HTTP to the Android gateway     *)
(* (server.py), which validates it again, assigns a reference and appends  *)
(* it to an in-memory queue.                                               *)
(*                                                                         *)
(* Strings that the code inspects character by character (message text,   *)
(* tokens, uuids, references) are sequences of one-character strings.      *)
(* JSON values are records [t, i, s]: t the JSON type, i the number (or    *)
(* 0/1 for a boolean), s the characters of a string.                       *)
(***************************************************************************)
EXTENDS Integers, Sequences, FiniteSets, TLC

\* ------------------------------------------------------------------ bounds
\* Longest queue explored by the sequential and the threaded gateway.
MaxQueue == 3
\* Longest queue explored for the /queue window (must exceed WINDOW).
MaxWindowQueue == 11
\* Webhook invocations explored.
MaxInvocations == 2

\* --------------------------------------------------------------- characters
Digits == {"0", "1", "2", "3", "4", "5", "6", "7", "8", "9"}

\* ARABIC-INDIC DIGIT SEVEN, one character: a decimal digit (Unicode category
\* Nd) outside ASCII, standing for all of them.
ARABIC_INDIC_SEVEN == "U+0667"

\* The characters \d matches in a str pattern, int() reads as digits and
\* str.isalnum() accepts as numeric: every Unicode decimal digit.
DecimalDigits == Digits \cup {ARABIC_INDIC_SEVEN}

LowerCase ==
  << "a", "b", "c", "d", "e", "f", "g", "h", "i", "j", "k", "l", "m",
     "n", "o", "p", "q", "r", "s", "t", "u", "v", "w", "x", "y", "z" >>

UpperCase ==
  << "A", "B", "C", "D", "E", "F", "G", "H", "I", "J", "K", "L", "M",
     "N", "O", "P", "Q", "R", "S", "T", "U", "V", "W", "X", "Y", "Z" >>

Letters == {LowerCase[i] : i \in DOMAIN LowerCase} \cup {UpperCase[i] : i \in DOMAIN UpperCase}

\* str.split() with no argument splits on runs of these.
Whitespace == {" ", "\t", "\n"}

DigitValue(c) ==
  CASE c = "0" -> 0 [] c = "1" -> 1 [] c = "2" -> 2 [] c = "3" -> 3 [] c = "4" -> 4
    [] c = "5" -> 5 [] c = "6" -> 6 [] c = "7" -> 7 [] c = "8" -> 8 [] c = "9" -> 9
    [] c = ARABIC_INDIC_SEVEN -> 7

\* str.upper() on one character.
UpperChar(c) ==
  IF \E i \in DOMAIN LowerCase : LowerCase[i] = c
    THEN UpperCase[CHOOSE i \in DOMAIN LowerCase : LowerCase[i] = c]
    ELSE c

\* str.upper()
Upper(s) == [i \in DOMAIN s |-> UpperChar(s[i])]

\* s[:n]
Take(s, n) == SubSeq(s, 1, IF Len(s) < n THEN Len(s) ELSE n)

\* Mutant of StartsWith: `c in s`, the character anywhere in the string.
OccursIn(s, c) == \E i \in DOMAIN s : s[i] = c

\* str.startswith(c) for a one-character prefix
StartsWith(s, c) == Len(s) >= 1 /\ s[1] = c

\* str.isalnum(): non-empty, letters and digits only
IsAlnum(s) == Len(s) >= 1 /\ \A i \in DOMAIN s : s[i] \in Letters \cup DecimalDigits

\* str.strip(): whitespace removed at both ends
RECURSIVE LStrip(_)
LStrip(s) == IF s # <<>> /\ s[1] \in Whitespace THEN LStrip(Tail(s)) ELSE s

RECURSIVE RStrip(_)
RStrip(s) ==
  IF s # <<>> /\ s[Len(s)] \in Whitespace THEN RStrip(SubSeq(s, 1, Len(s) - 1)) ELSE s

Strip(s) == RStrip(LStrip(s))

\* str.split(): the maximal runs of non-whitespace characters, in order.
\* cur is the token being read, acc the tokens read so far.
RECURSIVE SplitFrom(_, _, _)
SplitFrom(s, cur, acc) ==
  IF s = <<>>
    THEN IF cur = <<>> THEN acc ELSE Append(acc, cur)
    ELSE IF s[1] \in Whitespace
           THEN SplitFrom(Tail(s), <<>>, IF cur = <<>> THEN acc ELSE Append(acc, cur))
           ELSE SplitFrom(Tail(s), Append(cur, s[1]), acc)

\* Mutant of Split: split(None, 2), which leaves the rest of the text in the
\* third part.
SplitAtMostThree(s) ==
  LET parts == SplitFrom(s, <<>>, <<>>)
  IN  IF Len(parts) <= 3 THEN parts
      ELSE <<parts[1], parts[2], parts[3] \o <<" ">> \o parts[4]>>

Split(s) == SplitFrom(s, <<>>, <<>>)

\* Value of a run of decimal digits (underscores skipped).
RECURSIVE DigitsValue(_, _)
DigitsValue(s, acc) ==
  IF s = <<>> THEN acc
  ELSE IF s[1] = "_" THEN DigitsValue(Tail(s), acc)
  ELSE DigitsValue(Tail(s), 10 * acc + DigitValue(s[1]))

\* The digit part of an int literal: digits, single underscores between digits.
IsDigitRun(s) ==
  /\ Len(s) >= 1
  /\ \A i \in DOMAIN s : s[i] \in DecimalDigits \cup {"_"}
  /\ s[1] # "_" /\ s[Len(s)] # "_"
  /\ \A i \in 1..(Len(s) - 1) : ~(s[i] = "_" /\ s[i + 1] = "_")

\* int(str): surrounding whitespace, an optional sign, then the digits.
\* ok = FALSE stands for ValueError.
IntOfStr(str) ==
  LET s    == Strip(str)
      sign == IF s # <<>> /\ s[1] \in {"+", "-"} THEN s[1] ELSE ""
      body == IF sign = "" THEN s ELSE Tail(s)
  IN  IF IsDigitRun(body)
        THEN [ok |-> TRUE,
              v |-> IF sign = "-" THEN 0 - DigitsValue(body, 0) ELSE DigitsValue(body, 0)]
        ELSE [ok |-> FALSE, v |-> 0]

\* ------------------------------------------------------------- JSON values
JNull == [t |-> "null", i |-> 0, s |-> <<>>]
JInt(n) == [t |-> "int", i |-> n, s |-> <<>>]
JStr(str) == [t |-> "str", i |-> 0, s |-> str]
JBool(b) == [t |-> "bool", i |-> IF b THEN 1 ELSE 0, s |-> <<>>]
\* A JSON number with a fraction, i its value in tenths: JFloat(19) is 1.9.
JFloat(tenths) == [t |-> "float", i |-> tenths, s |-> <<>>]
\* A JSON number too large for a double, such as 1e999: json.loads gives inf.
JInfinity == [t |-> "inf", i |-> 0, s |-> <<>>]
\* The empty JSON array, as a field's value.
JEmptyArray == [t |-> "array", i |-> 0, s |-> <<>>]

\* Python truthiness of a JSON scalar
Truthy(v) ==
  CASE v.t = "null" -> FALSE
    [] v.t = "int" -> v.i # 0
    [] v.t = "bool" -> v.i = 1
    [] v.t = "str" -> v.s # <<>>
    [] v.t = "float" -> v.i # 0
    [] v.t = "inf" -> TRUE
    [] v.t = "array" -> FALSE


\* A request body as request.json yields it. kind "null": no value (None);
\* "object": a dict, obj its fields; "array": a list, obj's domain the strings
\* it contains; "number": a non-zero number or true; "unreadable": no JSON
\* can be read (an empty body, or text that is not JSON, sent as
\* application/json), so that request.json raises BadRequest.
NoFields == [f \in {} |-> JNull]
Body(kind, obj) == [kind |-> kind, obj |-> obj]
NullBody == Body("null", NoFields)
ObjectBody(obj) == Body("object", obj)
ArrayBody(obj) == Body("array", obj)
NumberBody == Body("number", NoFields)
UnreadableBody == Body("unreadable", NoFields)

\* `not data`
IsEmptyBody(data) ==
  \/ data.kind = "null"
  \/ data.kind \in {"object", "array"} /\ DOMAIN data.obj = {}

\* `field in data`; FALSE is no answer for a number, where `in` raises TypeError
Contains(data, field) == field \in DOMAIN data.obj

\* Mutant of Get: `data.get(field) or default`, the default also for a
\* value that is present and falsy.
GetOrDefault(data, field, default) ==
  IF field \in DOMAIN data.obj /\ data.obj[field].t # "null" /\ data.obj[field].s # <<>>
    THEN data.obj[field] ELSE default

\* data.get(field, default) of a dict
Get(data, field, default) == IF field \in DOMAIN data.obj THEN data.obj[field] ELSE default

\* ------------------------------------------------------- string constants
S_TXN == <<"T", "X", "N">>
S_UNKNOWN == <<"U", "N", "K", "N", "O", "W", "N">>
S_SMART == <<"S", "M", "A", "R", "T">>
S_GLOBE == <<"G", "L", "O", "B", "E">>

\* request.remote_addr of a direct client and of the webhook server
CLIENT_ADDR == "10.0.0.7"
MESSENGER_ADDR == "10.0.0.5"

\* ====================================================================
\* Android gateway (server.py)
\* ====================================================================
VARIABLES
  transaction_queue,  \* the in-memory queue of transaction records
  last,               \* the gateway's most recent HTTP response
  reported,           \* reported[i]: queue_position answered for record i, 0 before the answer
  served,             \* number of 200 answers of /reload so far
  pc,                 \* per worker thread: "idle", or "queued" between append and answer
  local,              \* per worker thread: the reference and the index of its own record
  received            \* the body of the request the gateway handled most recently

gateway_vars == <<transaction_queue, last, reported, served, pc, local, received>>

\* Worker threads of the gateway's threaded server.
GThreads == {"w1", "w2"}

\* Length of the uuid prefix kept in a reference.
REFERENCE_SUFFIX_LEN == 8
\* Number of records /queue returns at most.
QUEUE_WINDOW == 10

required_fields == <<"msisdn", "promo", "amount">>

\* generate_reference: "TXN-" + date + "-" + first 8 characters of the uuid, upper-cased
generate_reference(date, uuid) ==
  S_TXN \o <<"-">> \o date \o <<"-">> \o Upper(Take(uuid, REFERENCE_SUFFIX_LEN))

\* A gateway response. message is a sequence: its text, then its arguments.
Response(endpoint, code, status, message, reference, position, size, transactions) ==
  [endpoint |-> endpoint, code |-> code, status |-> status, message |-> message,
   reference |-> reference, queue_position |-> position, queue_size |-> size,
   transactions |-> transactions]

NoResponse == Response("none", 0, "", <<>>, <<>>, 0, 0, <<>>)

ErrorResponse(code, message) ==
  Response("reload", code, "ERROR", message, <<>>, 0, 0, <<>>)

\* int(data['amount']) and the positivity check. error is "" on success, else
\* what is raised: "ValueError" (a string that is no integer), "TypeError"
\* (None, a list), "OverflowError" (an infinite float), or "positive" (the
\* ValueError the handler raises itself). int() of a float truncates
\* towards zero.
CoerceAmount(v) ==
  LET parsed == IntOfStr(v.s)
      n == CASE v.t \in {"int", "bool"} -> v.i
             [] v.t = "float" -> IF v.i >= 0 THEN v.i \div 10 ELSE 0 - ((0 - v.i) \div 10)
             [] v.t = "str" /\ parsed.ok -> parsed.v
             [] OTHER -> 0
      raised == CASE v.t \in {"null", "array"} -> "TypeError"
                  [] v.t = "inf" -> "OverflowError"
                  [] v.t = "str" /\ ~parsed.ok -> "ValueError"
                  [] OTHER -> ""
  IN  IF raised # "" THEN [error |-> raised, amount |-> 0]
      ELSE IF n <= 0 THEN [error |-> "positive", amount |-> 0]
      ELSE [error |-> "", amount |-> n]

\* The transaction record built for a valid request.
Transaction(data, amount, reference, now, remote_addr) ==
  [reference |-> reference,
   msisdn |-> data.obj["msisdn"],
   promo |-> data.obj["promo"],
   amount |-> amount,
   network |-> Get(data, "network", JStr(S_UNKNOWN)),
   status |-> "QUEUED",
   timestamp |-> now,
   remote_addr |-> remote_addr]

\* Mutant of missing_fields: only the first missing field is reported.
first_missing_field(data) ==
  LET missing == SelectSeq(<<"msisdn", "promo", "amount">>, LAMBDA f : f \notin DOMAIN data.obj)
  IN  IF missing = <<>> THEN <<>> ELSE <<missing[1]>>

\* missing_fields = [field for field in required_fields if field not in data]
missing_fields(data) == SelectSeq(required_fields, LAMBDA f : ~Contains(data, f))

\* The validation part of reload: either an error response, or the record to
\* append (txn holds zero or one record).
Intake(data, reference, now, remote_addr) ==
  LET coerced == CoerceAmount(data.obj["amount"])
  IN  IF data.kind = "unreadable"
        \* request.json raises inside the try: the outer handler answers
        THEN [txn |-> <<>>, error |-> ErrorResponse(500, <<"Internal server error">>)]
      ELSE IF IsEmptyBody(data)
        THEN [txn |-> <<>>, error |-> ErrorResponse(400, <<"Empty request body">>)]
      ELSE IF data.kind = "number"
        \* `field not in data` raises TypeError: the outer handler answers
        THEN [txn |-> <<>>, error |-> ErrorResponse(500, <<"Internal server error">>)]
      ELSE IF missing_fields(data) # <<>>
        THEN [txn |-> <<>>,
              error |-> ErrorResponse(400, <<"Missing required fields">> \o missing_fields(data))]
      ELSE IF data.kind = "array"
        \* data['amount'] raises TypeError, and data.get in its handler AttributeError
        THEN [txn |-> <<>>, error |-> ErrorResponse(500, <<"Internal server error">>)]
      ELSE IF coerced.error = "OverflowError"
        \* not among the exceptions of line 59: the outer handler answers
        THEN [txn |-> <<>>, error |-> ErrorResponse(500, <<"Internal server error">>)]
      ELSE IF coerced.error # ""
        THEN [txn |-> <<>>, error |-> ErrorResponse(400, <<"Invalid amount", coerced.error>>)]
      ELSE [txn |-> <<Transaction(data, coerced.amount, reference, now, remote_addr)>>,
            error |-> NoResponse]

\* Mutant of Enqueue: the append is made twice.
EnqueueTwice(queue, txn) == Append(Append(queue, txn), txn)

\* Mutant of Enqueue: the new record is put at the head of the queue.
EnqueueAtHead(queue, txn) == <<txn>> \o queue

\* transaction_queue.append(transaction)
Enqueue(queue, txn) == Append(queue, txn)

\* Mutant of queue_position: a 0-based position.
queue_position_zero_based(queue) == Len(queue) - 1

\* len(transaction_queue), as read when the answer is built
queue_position(queue) == Len(queue)

QueuedResponse(reference, queue) ==
  Response("reload", 200, "QUEUED", <<>>, reference, queue_position(queue), 0, <<>>)

\* Mutant of LastTransactions: transaction_queue[:10], the oldest records.
FirstTransactions(queue) ==
  SubSeq(queue, 1, IF Len(queue) > QUEUE_WINDOW THEN QUEUE_WINDOW ELSE Len(queue))

\* transaction_queue[-10:]
LastTransactions(queue) ==
  LET n == Len(queue)
      start == IF n > QUEUE_WINDOW THEN n - QUEUE_WINDOW ELSE 0
  IN  SubSeq(queue, start + 1, n)

\* The scan of get_status: the first record with the reference, if any.
FindTransaction(queue, reference) ==
  LET hits == {i \in DOMAIN queue : queue[i].reference = reference}
  IN  IF hits = {} THEN <<>>
      ELSE <<queue[CHOOSE i \in hits : \A j \in hits : i <= j]>>


\* ====================================================================
\* Messenger webhook (messenger_server.py): parsing and mapping
\* ====================================================================
API_KEY == "dev-key-change-in-production"

\* Longest promo code accepted.
PROMO_MAX_LEN == 20
\* Mutant of AMOUNT_MAX: the upper limit taken as exclusive.
AMOUNT_MAX_EXCLUSIVE == 10000 - 1

\* Largest amount accepted.
AMOUNT_MAX == 10000
\* Digits after the "09" of a phone number.
PHONE_DIGITS == 9

\* Mutant of require_api_key: any key is accepted, only its presence is checked.
require_any_key(provided) == provided # <<>>

\* The check of require_api_key. provided is <<>> when the request has no
\* X-API-Key header, else <<the header's value>>.
require_api_key(provided) == provided = <<API_KEY>>

\* PHONE_PATTERN.match(s) for ^09\d{9}$ ($ also matches before a final newline)
PHONE_PATTERN(s) ==
  LET core == IF Len(s) = PHONE_DIGITS + 3 /\ s[Len(s)] = "\n"
                THEN SubSeq(s, 1, Len(s) - 1) ELSE s
  IN  /\ Len(core) = PHONE_DIGITS + 2
      /\ core[1] = "0" /\ core[2] = "9"
      /\ \A i \in 3..Len(core) : core[i] \in DecimalDigits

\* The pair validate_message returns: result and error hold zero (None) or
\* one value.
Invalid(error) == [result |-> <<>>, error |-> <<error>>]

validate_message(text) ==
  IF ~Truthy(text) \/ text.t # "str"
    THEN Invalid("Message text is required")
  ELSE
    LET parts == Split(Strip(text.s))
    IN  IF Len(parts) # 3
          THEN Invalid("Invalid format")
        ELSE
          LET msisdn == parts[1]
              promo == parts[2]
              amount_str == parts[3]
              amount == IntOfStr(amount_str)
          IN  IF ~PHONE_PATTERN(msisdn)
                THEN Invalid("Invalid phone number format")
              ELSE IF ~IsAlnum(promo) \/ Len(promo) > PROMO_MAX_LEN
                THEN Invalid("Invalid promo code")
              ELSE IF ~amount.ok
                THEN Invalid("Invalid amount: must be a number")
              ELSE IF amount.v <= 0 \/ amount.v > AMOUNT_MAX
                THEN Invalid("Invalid amount: must be between 1 and 10000")
              ELSE [result |-> << [msisdn |-> msisdn,
                                   promo |-> Upper(promo),
                                   amount |-> amount.v,
                                   network |-> IF StartsWith(Upper(promo), "G")
                                                 THEN S_SMART ELSE S_GLOBE] >>,
                    error |-> <<>>]

\* Mutant of ParsedBody: only the three required fields are sent.
RequiredFieldsBody(parsed) ==
  [kind |-> "object",
   obj |-> [msisdn |-> JStr(parsed.msisdn), promo |-> JStr(parsed.promo),
            amount |-> JInt(parsed.amount)]]

\* json=parsed: the body POSTed to the gateway
ParsedBody(parsed) ==
  ObjectBody([msisdn |-> JStr(parsed.msisdn), promo |-> JStr(parsed.promo),
              amount |-> JInt(parsed.amount), network |-> JStr(parsed.network)])

\* A webhook response. upstream is the gateway status a message quotes,
\* gateway holds the gateway's body when it is relayed.
MResponse(code, status, message, upstream, gateway) ==
  [code |-> code, status |-> status, message |-> message, upstream |-> upstream,
   gateway |-> gateway]

Pending == MResponse(0, "", "", 0, <<>>)

\* What requests.post, raise_for_status and response.json come to.
\* kind: "timeout", "connection_error", "other_exception" (any other
\* RequestException), or "reply" with the reply's status, whether its body
\* parses as JSON, and the body.
Wire(kind, status, parseable, body) ==
  [kind |-> kind, status |-> status, parseable |-> parseable, body |-> body]

NoWire == Wire("", 0, FALSE, <<>>)

\* Mutant of RaisesForStatus: only server errors raise.
RaisesForServerError(status) == 500 <= status /\ status < 600

\* response.raise_for_status() raises HTTPError
RaisesForStatus(status) == 400 <= status /\ status < 600

\* Mutant of GatewayError: the answer of the ValueError handler, copied.
GatewayErrorCopied(status) == MResponse(502, "error", "Invalid gateway response", 0, <<>>)

\* The answer of the HTTPError handler (lines 134-139)
GatewayError(status) == MResponse(502, "error", "Gateway error", status, <<>>)

\* The try/except around the forward (lines 103-146), and the outer handler
\* (lines 148-153): the branch taken and the response returned.
ForwardOutcome(wire) ==
  CASE wire.kind = "timeout" ->
         [outcome |-> "timeout",
          response |-> MResponse(504, "error", "Gateway timeout", 0, <<>>)]
    [] wire.kind = "connection_error" ->
         [outcome |-> "unavailable",
          response |-> MResponse(503, "error", "Gateway unavailable", 0, <<>>)]
    [] wire.kind = "reply" /\ RaisesForStatus(wire.status) ->
         [outcome |-> "gateway_error",
          response |-> GatewayError(wire.status)]
    [] wire.kind = "reply" /\ ~RaisesForStatus(wire.status) /\ ~wire.parseable ->
         [outcome |-> "invalid_response",
          response |-> MResponse(502, "error", "Invalid gateway response", 0, <<>>)]
    [] wire.kind = "reply" /\ ~RaisesForStatus(wire.status) /\ wire.parseable ->
         [outcome |-> "success",
          response |-> MResponse(200, "success", "Transaction queued", 0, wire.body)]
    [] OTHER ->
         [outcome |-> "internal_error",
          response |-> MResponse(500, "error", "Internal server error", 0, <<>>)]

\* What an invocation has done: whether request.json was read, the calls of
\* validate_message and of requests.post, the queue's length when the
\* invocation arrived, what the forward came to and the branch that answered.
Trace(parsed, validated, posts, arrived_at, wire, outcome) ==
  [parsed |-> parsed, validated |-> validated, posts |-> posts,
   arrived_at |-> arrived_at, wire |-> wire, outcome |-> outcome]

\* ====================================================================
\* Messenger webhook (messenger_server.py): state
\* ====================================================================
VARIABLES
  mpc,          \* "idle", or "forwarding" between validation and the POST
  mreq,         \* the invocation being handled: its X-API-Key and body
  mparsed,      \* the Reload Request validate_message produced
  mtrace,       \* what the invocation has done so far
  mresp,        \* the webhook's answer to the invocation, code 0 while pending
  invocations,  \* number of invocations received
  text,         \* the argument of a call of validate_message on its own
  returned      \* the pair that call returned, NotCalled before the call

\* No invocation yet, and no Reload Request.
NoInvocation == [key |-> <<>>, data |-> NullBody]
NoParsed == [msisdn |-> <<>>, promo |-> <<>>, amount |-> 0, network |-> <<>>]

\* validate_message has not been called yet.
NotCalled == [result |-> <<>>, error |-> <<>>]

messenger_vars == <<mpc, mreq, mparsed, mtrace, mresp, invocations>>

parser_vars == <<text, returned>>

vars == <<transaction_queue, last, reported, served, pc, local, received,
          mpc, mreq, mparsed, mtrace, mresp, invocations, text, returned>>

\* ====================================================================
\* Android gateway: handlers
\* ====================================================================

\* What reload answers, and the queue it leaves, when it runs without
\* interruption on `queue`.
ReloadRun(queue, data, date, uuid, now, remote_addr) ==
  LET reference == generate_reference(date, uuid)
      r == Intake(data, reference, now, remote_addr)
      appended == Enqueue(queue, r.txn[1])
  IN  IF r.txn = <<>>
        THEN [queue |-> queue, answer |-> r.error]
        ELSE [queue |-> appended, answer |-> QueuedResponse(reference, appended)]

\* reload, run without interruption, on the gateway's own state.
ReloadStep(data, date, uuid, now, remote_addr) ==
  LET run == ReloadRun(transaction_queue, data, date, uuid, now, remote_addr)
  IN  /\ received' = data
      /\ transaction_queue' = run.queue
      /\ last' = run.answer
      /\ IF run.answer.code = 200
           THEN /\ reported' = Append(reported, run.answer.queue_position)
                /\ served' = served + 1
           ELSE UNCHANGED <<reported, served>>

\* POST /reload, handled with no other request in between.
reload(data, date, uuid, now, remote_addr) ==
  /\ \A t \in GThreads : pc[t] = "idle"
  /\ ReloadStep(data, date, uuid, now, remote_addr)
  /\ UNCHANGED <<pc, local>>
  /\ UNCHANGED <<messenger_vars, parser_vars>>

\* POST /reload on worker thread t, up to and including the append (line 83).
\* A request that fails validation is answered here.
reload_append(t, data, date, uuid, now, remote_addr) ==
  LET reference == generate_reference(date, uuid)
      r == Intake(data, reference, now, remote_addr)
      queue == Enqueue(transaction_queue, r.txn[1])
  IN  /\ pc[t] = "idle"
      /\ received' = data
      /\ IF r.txn = <<>>
           THEN /\ last' = r.error
                /\ UNCHANGED <<transaction_queue, reported, pc, local>>
           ELSE /\ transaction_queue' = queue
                /\ reported' = Append(reported, 0)
                /\ pc' = [pc EXCEPT ![t] = "queued"]
                /\ local' = [local EXCEPT ![t] = [reference |-> reference, index |-> Len(queue)]]
                /\ UNCHANGED last
      /\ UNCHANGED served
      /\ UNCHANGED <<messenger_vars, parser_vars>>

\* POST /reload on worker thread t, from the append to the answer (lines 85-92):
\* the queue's length is read now.
reload_respond(t) ==
  LET answer == QueuedResponse(local[t].reference, transaction_queue)
  IN  /\ pc[t] = "queued"
      /\ last' = answer
      /\ reported' = [reported EXCEPT ![local[t].index] = answer.queue_position]
      /\ served' = served + 1
      /\ pc' = [pc EXCEPT ![t] = "idle"]
      /\ local' = [local EXCEPT ![t] = [reference |-> <<>>, index |-> 0]]
      /\ UNCHANGED <<transaction_queue, received>>
      /\ UNCHANGED <<messenger_vars, parser_vars>>

\* GET /queue
get_queue ==
  /\ last' = Response("queue", 200, "", <<>>, <<>>, 0,
                      Len(transaction_queue), LastTransactions(transaction_queue))
  /\ received' = NullBody
  /\ UNCHANGED <<transaction_queue, reported, served, pc, local>>
  /\ UNCHANGED <<messenger_vars, parser_vars>>

\* GET /status/<reference>
get_status(reference) ==
  LET found == FindTransaction(transaction_queue, reference)
  IN  /\ last' = IF found # <<>>
                   THEN Response("status", 200, found[1].status, <<>>, reference, 0, 0, found)
                   ELSE Response("status", 404, "NOT_FOUND",
                                 <<"Transaction not found">>,
                                 reference, 0, 0, <<>>)
      /\ received' = NullBody
      /\ UNCHANGED <<transaction_queue, reported, served, pc, local>>
      /\ UNCHANGED <<messenger_vars, parser_vars>>

\* GET /health
health_check ==
  /\ last' = Response("health", 200, "healthy", <<>>, <<>>, 0, Len(transaction_queue), <<>>)
  /\ received' = NullBody
  /\ UNCHANGED <<transaction_queue, reported, served, pc, local>>
  /\ UNCHANGED <<messenger_vars, parser_vars>>


\* Mutant of AfterPost: a timeout is retried once.
AfterPostRetried(trace, wire, outcome) ==
  [trace EXCEPT !.posts = @ + (IF wire.kind = "timeout" THEN 2 ELSE 1), !.wire = wire,
                !.outcome = outcome]

\* The invocation's trace once requests.post (lines 104-109) has been called
\* and its result mapped.
AfterPost(trace, wire, outcome) ==
  [trace EXCEPT !.posts = @ + 1, !.wire = wire, !.outcome = outcome]

\* ====================================================================
\* Messenger webhook: handler
\* ====================================================================

\* The body a server other than the gateway's reload handler replies with.
FOREIGN_BODY == Response("foreign", 0, "", <<>>, <<>>, 0, 0, <<>>)

\* POST /messenger, from require_api_key to the point where the validated
\* request is about to be forwarded (lines 27-100). Every rejection is
\* answered here.
messenger_webhook(key, data) ==
  LET arrived_at == Len(transaction_queue)
      message_text == Get(data, "message", JNull)
      validated == validate_message(message_text)
      Answer(parsed, calls, outcome, response) ==
        /\ mpc' = "idle"
        /\ mparsed' = NoParsed
        /\ mtrace' = Trace(parsed, calls, 0, arrived_at, NoWire, outcome)
        /\ mresp' = response
  IN  /\ mpc = "idle"
      /\ mreq' = [key |-> key, data |-> data]
      /\ invocations' = invocations + 1
      /\ IF ~require_api_key(key)
           THEN Answer(FALSE, 0, "unauthorized",
                       MResponse(401, "", "Invalid API key", 0, <<>>))
         ELSE IF data.kind = "unreadable"
           \* request.json raises inside the try: the outer handler answers
           THEN Answer(TRUE, 0, "internal_error",
                       MResponse(500, "error", "Internal server error", 0, <<>>))
         ELSE IF IsEmptyBody(data)
           THEN Answer(TRUE, 0, "empty_body",
                       MResponse(400, "error", "Empty request body", 0, <<>>))
         ELSE IF data.kind # "object"
           \* data.get raises AttributeError: the outer handler answers
           THEN Answer(TRUE, 0, "internal_error",
                       MResponse(500, "error", "Internal server error", 0, <<>>))
         ELSE IF ~Truthy(message_text)
           THEN Answer(TRUE, 0, "missing_message",
                       MResponse(400, "error", "Missing 'message' field", 0, <<>>))
         ELSE IF validated.error # <<>>
           THEN Answer(TRUE, 1, "invalid_format",
                       MResponse(400, "invalid_format", validated.error[1], 0, <<>>))
         ELSE /\ mpc' = "forwarding"
              /\ mparsed' = validated.result[1]
              /\ mtrace' = Trace(TRUE, 1, 0, arrived_at, NoWire, "")
              /\ mresp' = Pending
      /\ UNCHANGED <<gateway_vars, parser_vars>>

\* POST /messenger, the forward and its mapping (lines 102-153).
\* kind is what happens to the POST: "gateway" (the gateway's reload handler
\* replies), "reply" (another server at the configured URL replies with
\* status and a body that parses or not), "timeout", "connection_error" or
\* "other_exception". delivered tells whether the gateway handled the
\* request, which it may have done even when no reply arrives.
forward(kind, delivered, status, parseable, date, uuid, now) ==
  LET body == ParsedBody(mparsed)
      run == ReloadRun(transaction_queue, body, date, uuid, now, MESSENGER_ADDR)
      wire == CASE kind = "gateway" -> Wire("reply", run.answer.code, TRUE, <<run.answer>>)
                [] kind = "reply" ->
                     Wire("reply", status, parseable,
                          IF parseable THEN <<FOREIGN_BODY>> ELSE <<>>)
                [] OTHER -> Wire(kind, 0, FALSE, <<>>)
      mapped == ForwardOutcome(wire)
  IN  /\ mpc = "forwarding"
      /\ kind = "gateway" => delivered
      /\ IF delivered
           THEN ReloadStep(body, date, uuid, now, MESSENGER_ADDR)
           ELSE UNCHANGED <<transaction_queue, last, reported, served, received>>
      /\ mtrace' = AfterPost(mtrace, wire, mapped.outcome)
      /\ mresp' = mapped.response
      /\ mpc' = "idle"
      /\ UNCHANGED <<mreq, mparsed, invocations, pc, local, parser_vars>>

\* ====================================================================
\* Inputs
\* ====================================================================
MSISDN_A == <<"0", "9", "1", "7", "1", "2", "3", "4", "5", "6", "7">>
MSISDN_B == <<"0", "9", "1", "8", "7", "6", "5", "4", "3", "2", "1">>
PROMO_GIGA == <<"G", "I", "G", "A", "9", "9">>
PROMO_LOAD == <<"L", "O", "A", "D", "5", "0">>

\* datetime.now().strftime('%Y%m%d')
Dates == {<<"2", "0", "2", "6", "1", "1", "0", "4">>}

\* str(uuid.uuid4()): the first two differ only after the eighth character
UUID_A1 ==
  << "0", "a", "1", "b", "2", "c", "3", "d", "-", "1", "1", "1", "1", "-", "4", "a", "a", "a",
     "-", "8", "b", "b", "b", "-", "c", "c", "c", "c", "c", "c", "c", "c", "c", "c", "c", "1" >>
UUID_A2 ==
  << "0", "a", "1", "b", "2", "c", "3", "d", "-", "2", "2", "2", "2", "-", "4", "d", "d", "d",
     "-", "9", "e", "e", "e", "-", "f", "f", "f", "f", "f", "f", "f", "f", "f", "f", "f", "2" >>
UUID_B ==
  << "9", "f", "8", "e", "7", "d", "6", "c", "-", "3", "3", "3", "3", "-", "4", "0", "0", "0",
     "-", "a", "1", "1", "1", "-", "2", "2", "2", "2", "2", "2", "2", "2", "2", "2", "2", "3" >>
Uuids == {UUID_A1, UUID_A2, UUID_B}

\* datetime.now().isoformat()
Times == {"2026-11-04T10:00:00.000001", "2026-11-04T10:00:00.000002"}

\* Bodies POSTed to /reload by clients.
BODY_FULL ==
  ObjectBody([msisdn |-> JStr(MSISDN_A), promo |-> JStr(PROMO_GIGA), amount |-> JInt(99),
              network |-> JStr(S_SMART)])
BODY_NO_NETWORK ==
  ObjectBody([msisdn |-> JStr(MSISDN_B), promo |-> JStr(PROMO_LOAD),
              amount |-> JStr(<<"5", "0">>)])
ReloadBodies ==
  { BODY_FULL, BODY_NO_NETWORK,
    NullBody, UnreadableBody, ObjectBody(NoFields), NumberBody,
    ArrayBody([f \in {"msisdn", "promo", "amount"} |-> JNull]),
    ObjectBody([msisdn |-> JStr(MSISDN_A), amount |-> JInt(5)]),
    ObjectBody([network |-> JStr(S_GLOBE)]),
    ObjectBody([msisdn |-> JStr(MSISDN_A), promo |-> JStr(PROMO_GIGA), amount |-> JInt(0)]),
    ObjectBody([msisdn |-> JStr(MSISDN_A), promo |-> JStr(PROMO_GIGA), amount |-> JInt(-5)]),
    ObjectBody([msisdn |-> JStr(MSISDN_A), promo |-> JStr(PROMO_GIGA),
                amount |-> JStr(<<"a", "b", "c">>)]),
    ObjectBody([msisdn |-> JStr(MSISDN_A), promo |-> JStr(PROMO_GIGA), amount |-> JNull]) }

\* References asked of /status: every one the generator can produce, one in
\* lower case and one never produced.
StatusReferences ==
  {generate_reference(d, u) : d \in Dates, u \in Uuids}
    \cup {S_TXN \o <<"-">> \o d \o <<"-">> \o Take(UUID_B, REFERENCE_SUFFIX_LEN) : d \in Dates}
    \cup {S_TXN}

\* ====================================================================
\* Specifications
\* ====================================================================

\* Both servers as they start: an empty queue, no request handled.
ServersInit ==
  /\ transaction_queue = <<>>
  /\ last = NoResponse
  /\ received = NullBody
  /\ reported = <<>>
  /\ served = 0
  /\ pc = [t \in GThreads |-> "idle"]
  /\ local = [t \in GThreads |-> [reference |-> <<>>, index |-> 0]]
  /\ mpc = "idle"
  /\ mreq = NoInvocation
  /\ mparsed = NoParsed
  /\ mtrace = Trace(FALSE, 0, 0, 0, NoWire, "")
  /\ mresp = Pending
  /\ invocations = 0

Init ==
  /\ ServersInit
  /\ text = JNull
  /\ returned = NotCalled

\* A client POSTs to /reload.
ClientReload ==
  /\ Len(transaction_queue) < MaxQueue
  /\ \E data \in ReloadBodies, d \in Dates, u \in Uuids, now \in Times :
       reload(data, d, u, now, CLIENT_ADDR)

\* The gateway serving one request at a time.
Next ==
  \/ ClientReload
  \/ get_queue
  \/ \E reference \in StatusReferences : get_status(reference)
  \/ health_check

Spec == Init /\ [][Next]_vars

\* The gateway serving one request at a time, with a queue longer than the
\* /queue window; records differ in their reference.
WindowReload ==
  /\ Len(transaction_queue) < MaxWindowQueue
  /\ \E d \in Dates, u \in {UUID_A1, UUID_B} :
       reload(BODY_FULL, d, u, "2026-11-04T10:00:00.000001", CLIENT_ADDR)

WindowNext ==
  \/ WindowReload
  \/ get_queue

WindowSpec == Init /\ [][WindowNext]_vars

\* The gateway's worker threads serving /reload concurrently.
ConcurrentReload ==
  /\ Len(transaction_queue) < MaxQueue
  /\ \E t \in GThreads, data \in {BODY_FULL, BODY_NO_NETWORK, ObjectBody(NoFields)},
        d \in Dates, u \in Uuids :
       reload_append(t, data, d, u, "2026-11-04T10:00:00.000001", CLIENT_ADDR)

ConcNext ==
  \/ ConcurrentReload
  \/ \E t \in GThreads : reload_respond(t)

ConcSpec == Init /\ [][ConcNext]_vars


\* X-API-Key headers: absent, wrong, right.
Keys == {<<>>, <<"wrong-key">>, <<API_KEY>>}

Message(msisdn, promo, amount) == msisdn \o <<" ">> \o promo \o <<" ">> \o amount

\* Bodies POSTed to /messenger.
MSG_SMART == Message(MSISDN_A, <<"g", "i", "g", "a", "9", "9">>, <<"9", "9">>)
MSG_GLOBE == <<" ">> \o MSISDN_B \o <<"\t">> \o PROMO_LOAD \o <<" ", " ">> \o <<"5", "0", "\n">>
MessengerBodies ==
  { NullBody, UnreadableBody, ObjectBody(NoFields),
    ArrayBody([f \in {"message"} |-> JNull]),
    ObjectBody([text |-> JStr(MSG_SMART)]),
    ObjectBody([message |-> JStr(<<>>)]),
    ObjectBody([message |-> JInt(5)]),
    ObjectBody([message |-> JStr(MSG_SMART)]),
    ObjectBody([message |-> JStr(MSG_GLOBE)]),
    ObjectBody([message |-> JStr(Message(MSISDN_B, <<"l", "o", "a", "d", "5", "0">>,
                                         <<"1", "0", "0", "0", "0">>))]),
    ObjectBody([message |-> JStr(Message(MSISDN_A, <<"g">>, <<"1">>))]),
    ObjectBody([message |-> JStr(MSISDN_A \o <<" ">> \o PROMO_GIGA)]),
    ObjectBody([message |-> JStr(MSG_SMART \o <<" ", "x">>)]),
    ObjectBody([message |-> JStr(Message(Take(MSISDN_A, 10), PROMO_GIGA, <<"9", "9">>))]),
    ObjectBody([message |-> JStr(Message(MSISDN_A, <<"g", "-", "1">>, <<"9", "9">>))]),
    ObjectBody([message |-> JStr(Message(MSISDN_A, PROMO_GIGA, <<"0">>))]),
    ObjectBody([message |-> JStr(Message(MSISDN_A, PROMO_GIGA, <<"1", "0", "0", "0", "1">>))]),
    ObjectBody([message |-> JStr(Message(MSISDN_A, PROMO_GIGA, <<"a", "b", "c">>))]) }

\* Statuses of replies that do not come from the gateway's reload handler.
UpstreamStatuses == {200, 300, 304, 404, 500}

ForwardKinds == {"gateway", "reply", "timeout", "connection_error", "other_exception"}

\* The webhook serving one invocation at a time, the gateway serving its forwards.
Invocation ==
  /\ invocations < MaxInvocations
  /\ \E key \in Keys, data \in MessengerBodies : messenger_webhook(key, data)

Forward ==
  \E kind \in ForwardKinds, delivered \in BOOLEAN, d \in Dates, u \in {UUID_A1, UUID_B} :
    \E status \in IF kind = "reply" THEN UpstreamStatuses ELSE {0},
       parseable \in IF kind = "reply" THEN BOOLEAN ELSE {FALSE} :
      forward(kind, delivered, status, parseable, d, u, "2026-11-04T10:00:00.000001")

MsgNext ==
  \/ Invocation
  \/ Forward

MsgSpec == Init /\ [][MsgNext]_vars


\* ------------------------------------------------- the gateway's validation
\* Longest queue explored while every kind of body is offered to /reload.
MaxIntakeQueue == 2

\* Values offered for each field of a body.
FieldValue(f) ==
  CASE f = "msisdn" -> JStr(MSISDN_A)
    [] f = "promo" -> JStr(PROMO_GIGA)
    [] f = "amount" -> JInt(99)
    [] f = "network" -> JStr(S_GLOBE)

\* Objects holding every subset of the four fields.
SubsetBodies ==
  {ObjectBody([f \in fields |-> FieldValue(f)]) :
     fields \in SUBSET {"msisdn", "promo", "amount", "network"}}

\* Values offered as amount.
AmountValues ==
  { JInt(1), JInt(0), JInt(0 - 5), JInt(20000), JBool(TRUE), JBool(FALSE), JNull,
    JStr(<<"5", "0">>), JStr(<<" ", "7", "\n">>), JStr(<<"a", "b", "c">>), JStr(<<>>),
    JFloat(19), JFloat(5), JFloat(0 - 19), JInfinity, JEmptyArray }

\* Objects with every required field and each of the amounts, without network.
AmountBodies ==
  {ObjectBody([msisdn |-> JStr(MSISDN_B), promo |-> JStr(PROMO_LOAD), amount |-> a]) :
     a \in AmountValues}

\* Objects whose msisdn and promo are not of the validator's form, and
\* objects whose network is null or empty.
UncheckedBodies ==
  { ObjectBody([msisdn |-> JStr(<<"a", "b", "c">>), promo |-> JStr(<<"g", "-", "1">>),
                amount |-> JInt(20000)]),
    ObjectBody([msisdn |-> JNull, promo |-> JInt(5), amount |-> JInt(7)]),
    ObjectBody([msisdn |-> JStr(MSISDN_A), promo |-> JStr(PROMO_GIGA), amount |-> JInt(99),
                network |-> JNull]),
    ObjectBody([msisdn |-> JStr(MSISDN_A), promo |-> JStr(PROMO_GIGA), amount |-> JInt(99),
                network |-> JStr(<<>>)]) }

IntakeBodies ==
  SubsetBodies \cup AmountBodies \cup UncheckedBodies
    \cup {NullBody, UnreadableBody, NumberBody,
          ArrayBody([f \in {"msisdn", "promo"} |-> JNull])}

\* A client POSTs one of these bodies to /reload.
IntakeReload ==
  /\ Len(transaction_queue) < MaxIntakeQueue
  /\ \E data \in IntakeBodies, d \in Dates :
       reload(data, d, UUID_B, "2026-11-04T10:00:00.000001", CLIENT_ADDR)

IntakeNext ==
  \/ IntakeReload
  \/ health_check

IntakeSpec == Init /\ [][IntakeNext]_vars

\* ---------------------------------------------- validate_message on its own
\* Most tokens a message text is built from.
MaxTokens == 4

\* Tokens offered as msisdn: two well-formed numbers, then one digit short,
\* one digit long, a wrong prefix, a letter, the international form, and a
\* number whose last digit is not an ASCII digit.
MsisdnTokens ==
  { MSISDN_A, MSISDN_B, Take(MSISDN_A, 10), MSISDN_A \o <<"7">>,
    <<"0", "8">> \o SubSeq(MSISDN_A, 3, 11),
    Take(MSISDN_A, 10) \o <<"x">>,
    <<"+", "6", "3">> \o Tail(MSISDN_A),
    Take(MSISDN_A, 10) \o <<ARABIC_INDIC_SEVEN>> }

\* Tokens offered as promo: upper, lower and mixed case, one character,
\* a character that is not alphanumeric, and lengths 20 and 21.
PromoTokens ==
  { PROMO_GIGA, PROMO_LOAD, <<"g", "i", "g", "a", "9", "9">>, <<"l", "o", "a", "d", "5", "0">>,
    <<"g">>, <<"G", "1">>, <<"x", "G">>, <<"9", "g">>, <<"g", "-", "1">>,
    [i \in 1..PROMO_MAX_LEN |-> "a"], [i \in 1..(PROMO_MAX_LEN + 1) |-> "G"] }

\* Tokens offered as amount.
AmountTokens ==
  { <<"1">>, <<"1", "0", "0", "0", "0">>, <<"0">>, <<"1", "0", "0", "0", "1">>,
    <<"9", "9">>, <<"9", "9", "9", "9">>, <<"-", "5">>, <<"-", "0">>, <<"+", "5">>,
    <<"1", "_", "0">>, <<"1", ".", "5">>, <<"a", "b", "c">>, <<"1", "e", "3">>,
    <<ARABIC_INDIC_SEVEN>> }

\* The tokens joined by sep.
RECURSIVE Join(_, _)
Join(tokens, sep) ==
  IF tokens = <<>> THEN <<>>
  ELSE IF Len(tokens) = 1 THEN tokens[1]
  ELSE tokens[1] \o sep \o Join(Tail(tokens), sep)

\* Texts of n tokens, n up to MaxTokens: a well-formed message cut short or
\* carrying extra words, some with whitespace around and between the tokens.
TokenRuns ==
  LET words == [i \in 1..MaxTokens |->
                  CASE i = 1 -> MSISDN_A [] i = 2 -> PROMO_GIGA [] i = 3 -> <<"9", "9">>
                    [] OTHER -> <<"x">>]
  IN  UNION { { Join(SubSeq(words, 1, n), <<" ">>),
                <<" ", "\t">> \o Join(SubSeq(words, 1, n), <<"\n", " ">>) \o <<"\n">> }
              : n \in 0..MaxTokens }

\* Arguments of validate_message: values that are not strings, the empty
\* string, texts of every token count, and three-token texts of every
\* combination of the tokens above.
MessageTexts ==
  {JNull, JInt(5), JBool(TRUE)}
    \cup {JStr(t) : t \in TokenRuns}
    \cup {JStr(Message(m, p, a)) : m \in MsisdnTokens, p \in PromoTokens, a \in AmountTokens}

\* validate_message(text), called directly.
Validate ==
  /\ returned = NotCalled
  /\ returned' = validate_message(text)
  /\ UNCHANGED <<text, gateway_vars, messenger_vars>>

ParseInit ==
  /\ ServersInit
  /\ text \in MessageTexts
  /\ returned = NotCalled

ParseNext == Validate

ParseSpec == ParseInit /\ [][ParseNext]_vars


\* ====================================================================
\* Properties
\* ====================================================================
IsPrefix(a, b) == Len(a) <= Len(b) /\ SubSeq(b, 1, Len(a)) = a

Min(a, b) == IF a < b THEN a ELSE b

\* C1 (ConcSpec): every successful intake reports the 1-based index of its
\* own record, and no two successful intakes report the same queue_position.
C1_LinearizedPositions ==
  \A i \in DOMAIN reported :
    reported[i] # 0 =>
      /\ reported[i] = i
      /\ \A j \in DOMAIN reported : j # i => reported[j] # reported[i]

\* C2 (Spec): no two records of the queue have the same reference.
C2_UniqueReferences ==
  \A i, j \in DOMAIN transaction_queue :
    i # j => transaction_queue[i].reference # transaction_queue[j].reference

\* C3 (Spec): with requests handled one after another, a successful /reload
\* answers QUEUED with queue_position = prior successful intakes + 1, the
\* queue's size right after its own insertion; so every record's reported
\* position is its index.
C3_SequentialPosition ==
  /\ \A i \in DOMAIN reported : reported[i] = i
  /\ (last.endpoint = "reload" /\ last.code = 200) =>
       /\ last.status = "QUEUED"
       /\ last.queue_position = (served - 1) + 1
       /\ last.queue_position = Len(transaction_queue)

C3_Witness ==
  /\ last.endpoint = "reload" /\ last.code = 200
  /\ served >= 2
  /\ last.queue_position = 2

\* C4 (Spec): the queue is append-only: every step of /reload, /queue,
\* /status and /health leaves the earlier queue as a prefix of the later one.
C4_AppendOnly == [][IsPrefix(transaction_queue, transaction_queue')]_vars

C4_Witness ==
  /\ Len(transaction_queue) >= 2
  /\ transaction_queue[1] # transaction_queue[2]
  /\ last.endpoint \in {"queue", "status", "health"}

\* C5 (Spec): GET /status/r answers 200 with exactly the record committed by
\* the intake that returned r, whichever record of the queue that is, and
\* NOT_FOUND with 404 when no record carries r.
C5_StatusReturnsCommitted ==
  last.endpoint = "status" =>
    LET carriers == {i \in DOMAIN transaction_queue :
                       transaction_queue[i].reference = last.reference}
    IN  /\ \A i \in carriers :
             last.code = 200 /\ last.transactions = <<transaction_queue[i]>>
        /\ carriers = {} => last.code = 404 /\ last.status = "NOT_FOUND"

\* C6 (WindowSpec): GET /queue answers queue_size = n and exactly the last
\* min(n, 10) records of the queue, oldest first, never more than 10.
C6_QueueWindow ==
  last.endpoint = "queue" =>
    LET n == Len(transaction_queue)
        k == Min(n, 10)
    IN  /\ last.queue_size = n
        /\ Len(last.transactions) = k
        /\ Len(last.transactions) <= 10
        /\ \A i \in 1..k : last.transactions[i] = transaction_queue[n - k + i]

C6_Witness ==
  /\ last.endpoint = "queue"
  /\ Len(transaction_queue) > 10
  /\ transaction_queue[1] # transaction_queue[Len(transaction_queue)]

\* An invocation has been answered.
Answered == invocations > 0 /\ mpc = "idle"

\* C7 (MsgSpec): an invocation whose X-API-Key is missing or wrong is answered
\* 401 with the body unread, validate_message not called, nothing forwarded
\* and the gateway's queue as it was.
C7_UnauthorizedRejectedFirst ==
  (invocations > 0 /\ mreq.key # <<API_KEY>>) =>
    /\ mpc = "idle"
    /\ mresp.code = 401
    /\ ~mtrace.parsed
    /\ mtrace.validated = 0
    /\ mtrace.posts = 0
    /\ Len(transaction_queue) = mtrace.arrived_at

C7_Witness ==
  /\ invocations > 0
  /\ mreq.key = <<"wrong-key">>
  /\ mreq.data = ObjectBody([message |-> JStr(MSG_SMART)])
  /\ mresp.code = 401
  /\ Len(transaction_queue) > 0

\* The invocation's message validates.
MessageValidates ==
  /\ mreq.data.kind = "object"
  /\ validate_message(Get(mreq.data, "message", JNull)).error = <<>>

\* The invocation has no body (none that can be read, or null, or an empty
\* object), or its body is an object with no message or an empty one.
BodyOrMessageMissing ==
  \/ mreq.data.kind \in {"unreadable", "null"}
  \/ /\ mreq.data.kind = "object"
     /\ ~Truthy(Get(mreq.data, "message", JNull))

\* C8 (MsgSpec): an authorized invocation whose message validates makes
\* exactly one POST to the gateway, whatever comes of it; one whose body or
\* message is missing or whose message fails validation is answered 400 and
\* makes none.
C8_ExactlyOneForward ==
  /\ mtrace.posts <= 1
  /\ (Answered /\ mreq.key = <<API_KEY>>) =>
       /\ MessageValidates => mtrace.posts = 1
       /\ (BodyOrMessageMissing \/ (mreq.data.kind = "object" /\ ~MessageValidates)) =>
            mresp.code = 400 /\ mtrace.posts = 0

\* C8, for every body request.json can read (MsgSpec): the same, with a body
\* that cannot be read answered 500, also without a POST.
C8_ReadableBodies ==
  /\ mtrace.posts <= 1
  /\ (Answered /\ mreq.key = <<API_KEY>>) =>
       /\ MessageValidates => mtrace.posts = 1
       /\ ~MessageValidates => mtrace.posts = 0
       /\ ((BodyOrMessageMissing \/ (mreq.data.kind = "object" /\ ~MessageValidates))
             /\ mreq.data.kind # "unreadable") => mresp.code = 400
       /\ mreq.data.kind = "unreadable" => mresp.code = 500

C8_Witness ==
  /\ Answered /\ mreq.key = <<API_KEY>>
  /\ MessageValidates
  /\ mtrace.posts = 1
  /\ mtrace.wire.kind = "timeout"

\* C9 (MsgSpec): a timeout is answered 504, a connection failure 503, a
\* gateway reply with an error status (4xx, 5xx) 502, each with status
\* "error" and after a single POST.
C9_ErrorMapping ==
  (Answered /\ mtrace.posts >= 1) =>
    /\ mtrace.wire.kind = "timeout" =>
         mresp.code = 504 /\ mresp.status = "error" /\ mtrace.posts = 1
    /\ mtrace.wire.kind = "connection_error" =>
         mresp.code = 503 /\ mresp.status = "error" /\ mtrace.posts = 1
    /\ (mtrace.wire.kind = "reply" /\ mtrace.wire.status \in 400..599) =>
         mresp.code = 502 /\ mresp.status = "error" /\ mtrace.posts = 1

C9_Witness ==
  /\ Answered
  /\ mtrace.wire.kind = "reply" /\ mtrace.wire.status = 500
  /\ mresp.code = 502

\* The five results of a forward the forwarder's contract names.
WireClass(wire) ==
  CASE wire.kind = "timeout" -> "timeout"
    [] wire.kind = "connection_error" -> "unreachable"
    [] wire.kind = "reply" /\ wire.status \in 200..299 /\ wire.parseable -> "success"
    [] wire.kind = "reply" /\ wire.status \in 200..299 /\ ~wire.parseable -> "malformed"
    [] wire.kind = "reply" /\ wire.status \notin 200..299 -> "non2xx"
    [] OTHER -> "other"

FiveClasses == {"success", "timeout", "unreachable", "non2xx", "malformed"}
FiveOutcomes == {"success", "timeout", "unavailable", "gateway_error", "invalid_response"}
ErrorOutcomes == FiveOutcomes \ {"success"}

\* Every result a forward can come to within the five classes.
ClassifiedWires ==
  {Wire(k, 0, FALSE, <<>>) : k \in {"timeout", "connection_error"}}
    \cup {Wire("reply", st, p, <<>>) : st \in UpstreamStatuses, p \in BOOLEAN}

\* The forward of the answered invocation came to one of the five results.
ForwardClassified ==
  Answered /\ mtrace.posts >= 1 /\ WireClass(mtrace.wire) \in FiveClasses

\* C10 as claimed (MsgSpec): every such forward is answered by exactly one of
\* the five outcomes, and the HTTP status of an error outcome is the status
\* of no other error outcome.
C10_DistinctStatusCodes ==
  ForwardClassified =>
    /\ mtrace.outcome \in FiveOutcomes
    /\ \A w \in ClassifiedWires :
         LET other == ForwardOutcome(w)
         IN  (mtrace.outcome \in ErrorOutcomes /\ other.outcome \in ErrorOutcomes
                /\ other.outcome # mtrace.outcome)
               => other.response.code # mresp.code

\* C10 as amended (MsgSpec): every such forward is answered by exactly one of
\* the five outcomes, and the pair of HTTP status and message of an error
\* outcome is the pair of no other error outcome.
C10_DistinctStatusAndMessage ==
  ForwardClassified =>
    /\ mtrace.outcome \in FiveOutcomes
    /\ \A w \in ClassifiedWires :
         LET other == ForwardOutcome(w)
         IN  (mtrace.outcome \in ErrorOutcomes /\ other.outcome \in ErrorOutcomes
                /\ other.outcome # mtrace.outcome)
               => <<other.response.code, other.response.message>>
                    # <<mresp.code, mresp.message>>

C10_Witness ==
  /\ ForwardClassified
  /\ mtrace.outcome = "gateway_error"
  /\ mresp.code = 502
  /\ \E w \in ClassifiedWires :
       ForwardOutcome(w).outcome = "invalid_response" /\ ForwardOutcome(w).response.code = 502

\* C11: the webhook answers 200 "success" with the gateway's body only when
\* the gateway replied with a 2xx status and a body that parses, and every
\* reply whose status is outside 200..299 is answered 502 "Gateway error"
\* carrying that status.
C11_SuccessOnly2xx ==
  (Answered /\ mtrace.posts >= 1) =>
    /\ mresp.code = 200 =>
         /\ mtrace.wire.kind = "reply"
         /\ mtrace.wire.status \in 200..299
         /\ mtrace.wire.parseable
         /\ mresp.status = "success"
         /\ mresp.gateway = mtrace.wire.body
    /\ (mtrace.wire.kind = "reply" /\ mtrace.wire.status \notin 200..299) =>
         /\ mresp.code = 502
         /\ mresp.message = "Gateway error"
         /\ mresp.upstream = mtrace.wire.status

\* validate_message has been called on text, a string, and has returned.
Parsed == returned # NotCalled /\ text.t = "str"

\* Number of whitespace-separated tokens of s: the positions where a token
\* starts.
TokenCount(s) ==
  Cardinality({i \in DOMAIN s : s[i] \notin Whitespace /\ (i = 1 \/ s[i - 1] \in Whitespace)})

\* The parser returned a discriminated result: a result and no error, or an
\* error and no result.
Discriminated == Len(returned.result) + Len(returned.error) = 1

GoodMsisdns == {MSISDN_A, MSISDN_B}
BadPromos == {<<"g", "-", "1">>, [i \in 1..(PROMO_MAX_LEN + 1) |-> "G"]}
GoodPromos == PromoTokens \ BadPromos

\* The integer each amount token stands for, read by hand as int() reads it
\* (a sign, underscores between digits and non-ASCII digits are accepted);
\* int is FALSE for a token that is no integer.
AmountCases ==
  { [token |-> <<"1">>, int |-> TRUE, v |-> 1],
    [token |-> <<"1", "0", "0", "0", "0">>, int |-> TRUE, v |-> 10000],
    [token |-> <<"0">>, int |-> TRUE, v |-> 0],
    [token |-> <<"1", "0", "0", "0", "1">>, int |-> TRUE, v |-> 10001],
    [token |-> <<"9", "9">>, int |-> TRUE, v |-> 99],
    [token |-> <<"9", "9", "9", "9">>, int |-> TRUE, v |-> 9999],
    [token |-> <<"-", "5">>, int |-> TRUE, v |-> 0 - 5],
    [token |-> <<"-", "0">>, int |-> TRUE, v |-> 0],
    [token |-> <<"+", "5">>, int |-> TRUE, v |-> 5],
    [token |-> <<"1", "_", "0">>, int |-> TRUE, v |-> 10],
    [token |-> <<"1", ".", "5">>, int |-> FALSE, v |-> 0],
    [token |-> <<"a", "b", "c">>, int |-> FALSE, v |-> 0],
    [token |-> <<"1", "e", "3">>, int |-> FALSE, v |-> 0],
    [token |-> <<ARABIC_INDIC_SEVEN>>, int |-> TRUE, v |-> 7] }

\* C13 (ParseSpec): a three-token message with a valid msisdn and promo is
\* parsed successfully exactly when its amount token is an integer in
\* 1..10000 (1 and 10000 included; 0, 10001, negative and non-numeric tokens
\* rejected), and the amount of the result is that integer.
C13_AmountRange ==
  /\ AmountTokens = {c.token : c \in AmountCases}
  /\ \A m \in GoodMsisdns, p \in GoodPromos, c \in AmountCases :
       (returned # NotCalled /\ text = JStr(Message(m, p, c.token))) =>
         /\ returned.result # <<>> <=> (c.int /\ c.v >= 1 /\ c.v <= 10000)
         /\ returned.result # <<>> => returned.result[1].amount = c.v
         /\ returned.result = <<>> => returned.error # <<>>

\* The upper boundary is accepted.
C13_Witness ==
  /\ text = JStr(Message(MSISDN_A, PROMO_GIGA, <<"1", "0", "0", "0", "0">>))
  /\ returned.result # <<>>
  /\ returned.result[1].amount = 10000

\* `09` followed by exactly 9 digits, 11 characters in total.
WellFormedMsisdn(m) ==
  /\ Len(m) = 11
  /\ m[1] = "0" /\ m[2] = "9"
  /\ \A i \in 3..11 : m[i] \in Digits

\* Amount tokens that stand for an integer in 1..10000.
GoodAmounts == {c.token : c \in {k \in AmountCases : k.int /\ k.v >= 1 /\ k.v <= 10000}}

\* C14 (ParseSpec): a three-token message whose msisdn token is not `09`
\* followed by exactly 9 digits is rejected, and one whose msisdn is of that
\* form, with a valid promo and amount, is parsed with the msisdn unchanged.
C14_MsisdnPattern ==
  \A m \in MsisdnTokens, p \in PromoTokens, a \in AmountTokens :
    (returned # NotCalled /\ text = JStr(Message(m, p, a))) =>
      /\ ~WellFormedMsisdn(m) => returned.result = <<>>
      /\ (WellFormedMsisdn(m) /\ p \in GoodPromos /\ a \in GoodAmounts) =>
           (returned.result # <<>> /\ returned.result[1].msisdn = m)

\* C14, as the code has it: the same with "digit" read as any Unicode
\* decimal digit, which is what \d matches.
C14_DecimalDigitPattern ==
  \A m \in MsisdnTokens, p \in PromoTokens, a \in AmountTokens :
    (returned # NotCalled /\ text = JStr(Message(m, p, a))) =>
      LET matches == /\ Len(m) = 11
                     /\ m[1] = "0" /\ m[2] = "9"
                     /\ \A i \in 3..Len(m) : m[i] \in Digits \cup {ARABIC_INDIC_SEVEN}
      IN  /\ ~matches => returned.result = <<>>
          /\ (matches /\ p \in GoodPromos /\ a \in GoodAmounts) =>
               (returned.result # <<>> /\ returned.result[1].msisdn = m)

\* The upper-case form of each promo token that passes the promo check,
\* written out by hand.
PromoCases ==
  { [token |-> PROMO_GIGA, upper |-> PROMO_GIGA],
    [token |-> PROMO_LOAD, upper |-> PROMO_LOAD],
    [token |-> <<"g", "i", "g", "a", "9", "9">>, upper |-> PROMO_GIGA],
    [token |-> <<"l", "o", "a", "d", "5", "0">>, upper |-> PROMO_LOAD],
    [token |-> <<"g">>, upper |-> <<"G">>],
    [token |-> <<"G", "1">>, upper |-> <<"G", "1">>],
    [token |-> <<"x", "G">>, upper |-> <<"X", "G">>],
    [token |-> <<"9", "g">>, upper |-> <<"9", "G">>],
    [token |-> [i \in 1..PROMO_MAX_LEN |-> "a"], upper |-> [i \in 1..PROMO_MAX_LEN |-> "A"]] }

\* C15 (ParseSpec): a successfully parsed message has network SMART exactly
\* when its promo token starts with g or G, GLOBE otherwise, and its promo
\* is the promo token in upper case.
C15_NetworkFromPromo ==
  /\ GoodPromos = {c.token : c \in PromoCases}
  /\ \A m \in MsisdnTokens, c \in PromoCases, a \in AmountTokens :
       (returned.result # <<>> /\ text = JStr(Message(m, c.token, a))) =>
         /\ returned.result[1].network =
              (IF c.token[1] \in {"g", "G"} THEN S_SMART ELSE S_GLOBE)
         /\ returned.result[1].promo = c.upper

\* A lower-case promo starting with g is SMART, one holding a G further on
\* is GLOBE.
C15_Witness ==
  /\ text = JStr(Message(MSISDN_B, <<"x", "G">>, <<"1">>))
  /\ returned.result # <<>>
  /\ returned.result[1].network = S_GLOBE
  /\ returned.result[1].promo = <<"X", "G">>

\* /reload has answered the request whose body is `received`.
ReloadAnswered == last.endpoint = "reload"

\* The required fields the received body lacks, in the order msisdn, promo,
\* amount.
Lacking == SelectSeq(<<"msisdn", "promo", "amount">>, LAMBDA f : f \notin DOMAIN received.obj)

\* C16 as stated: a /reload whose object body lacks any of the required
\* fields, whichever subset, is answered 400 with exactly the missing fields
\* listed, and commits no record.
C16_MissingFieldsListed ==
  (ReloadAnswered /\ received.kind = "object" /\ Lacking # <<>>) =>
    /\ last.code = 400
    /\ last.message = <<"Missing required fields">> \o Lacking
    /\ Len(transaction_queue) = served

\* C16 (amended; IntakeSpec): a /reload whose body is a non-empty object
\* lacking any of the required fields is answered 400 with exactly the
\* missing fields listed; the empty object, which lacks all three, is
\* answered 400 "Empty request body"; neither commits a record.
C16_MissingFieldsListedUnlessEmpty ==
  (ReloadAnswered /\ received.kind = "object" /\ Lacking # <<>>) =>
    /\ last.code = 400
    /\ last.message = IF DOMAIN received.obj = {}
                        THEN <<"Empty request body">>
                        ELSE <<"Missing required fields">> \o Lacking
    /\ Len(transaction_queue) = served

\* A body with msisdn and network only is told that promo and amount are
\* missing, after a record was committed.
C16_Witness ==
  /\ ReloadAnswered
  /\ DOMAIN received.obj = {"msisdn", "network"}
  /\ last.message = <<"Missing required fields", "promo", "amount">>
  /\ Len(transaction_queue) = 1

\* What each amount offered coerces to, worked out by hand from int():
\* positive tells whether the result is a strictly positive integer, v is
\* that integer.
AmountValueCases ==
  { [value |-> JInt(1), positive |-> TRUE, v |-> 1],
    [value |-> JInt(7), positive |-> TRUE, v |-> 7],
    [value |-> JInt(99), positive |-> TRUE, v |-> 99],
    [value |-> JInt(20000), positive |-> TRUE, v |-> 20000],
    [value |-> JBool(TRUE), positive |-> TRUE, v |-> 1],
    [value |-> JStr(<<"5", "0">>), positive |-> TRUE, v |-> 50],
    [value |-> JStr(<<" ", "7", "\n">>), positive |-> TRUE, v |-> 7],
    [value |-> JFloat(19), positive |-> TRUE, v |-> 1],
    [value |-> JInt(0), positive |-> FALSE, v |-> 0],
    [value |-> JInt(0 - 5), positive |-> FALSE, v |-> 0],
    [value |-> JBool(FALSE), positive |-> FALSE, v |-> 0],
    [value |-> JFloat(5), positive |-> FALSE, v |-> 0],
    [value |-> JFloat(0 - 19), positive |-> FALSE, v |-> 0],
    [value |-> JNull, positive |-> FALSE, v |-> 0],
    [value |-> JStr(<<"a", "b", "c">>), positive |-> FALSE, v |-> 0],
    [value |-> JStr(<<>>), positive |-> FALSE, v |-> 0],
    [value |-> JEmptyArray, positive |-> FALSE, v |-> 0],
    [value |-> JInfinity, positive |-> FALSE, v |-> 0] }

\* The received body is an object with every required field.
CompleteObject == received.kind = "object" /\ Lacking = <<>>

\* The answer to a complete object whose amount is c.value: a commit of the
\* fields as submitted with the coerced amount when that is a positive
\* integer, 400 with a message about the amount and no commit otherwise.
AmountAnswered(c) ==
  LET record == transaction_queue[Len(transaction_queue)]
  IN  IF c.positive
        THEN /\ last.code = 200
             /\ transaction_queue # <<>>
             /\ record.reference = last.reference
             /\ record.amount = c.v
             /\ record.msisdn = received.obj["msisdn"]
             /\ record.promo = received.obj["promo"]
        ELSE /\ last.code = 400
             /\ Len(last.message) >= 1 /\ last.message[1] = "Invalid amount"
             /\ Len(transaction_queue) = served

\* C17 (IntakeSpec): a /reload with every required field commits a record
\* only when the amount coerces to a strictly positive integer, and then
\* stores that integer, whatever its size and whatever the msisdn and promo
\* look like; every other amount is answered 400 with a message about the
\* amount.
C17_AmountCoercion ==
  /\ \A data \in IntakeBodies :
       (data.kind = "object" /\ "amount" \in DOMAIN data.obj) =>
         \E c \in AmountValueCases : c.value = data.obj["amount"]
  /\ \A c \in AmountValueCases :
       (ReloadAnswered /\ CompleteObject /\ received.obj["amount"] = c.value) =>
         AmountAnswered(c)

\* C17, as the code has it: the same for every amount except a number too
\* large for a double.
C17_FiniteAmounts ==
  \A c \in AmountValueCases :
    (ReloadAnswered /\ CompleteObject /\ received.obj["amount"] = c.value
       /\ c.value # JInfinity) =>
      AmountAnswered(c)

\* The record the latest 200 answer of /reload stands for.
Committed == transaction_queue[Len(transaction_queue)]

\* C18 (IntakeSpec): the record a successful /reload stores carries the
\* submitted network when the body has the field, whatever its value, and
\* the literal UNKNOWN when it has not, whatever the promo.
C18_NetworkStoredAsSubmitted ==
  (ReloadAnswered /\ last.code = 200) =>
    /\ transaction_queue # <<>>
    /\ Committed.reference = last.reference
    /\ "network" \in DOMAIN received.obj => Committed.network = received.obj["network"]
    /\ "network" \notin DOMAIN received.obj =>
         Committed.network = [t |-> "str", i |-> 0, s |-> <<"U", "N", "K", "N", "O", "W", "N">>]

\* A body with promo GIGA99 and no network is stored with network UNKNOWN.
C18_Witness ==
  /\ ReloadAnswered /\ last.code = 200
  /\ received.obj["promo"] = JStr(PROMO_GIGA)
  /\ "network" \notin DOMAIN received.obj
  /\ Committed.network = JStr(S_UNKNOWN)

\* C19 (Spec): a /reload answered 200 lengthens the queue by exactly one
\* record, put at its end; a /reload answered 400 or 500 and every GET of
\* /queue, /status/<reference> (found or not) and /health leave the queue as
\* it was.
C19_Frame ==
  [][IF last'.endpoint = "reload" /\ last'.code = 200
       THEN /\ Len(transaction_queue') = Len(transaction_queue) + 1
            /\ IsPrefix(transaction_queue, transaction_queue')
       ELSE /\ last'.endpoint \in {"reload", "queue", "status", "health"}
            /\ last'.endpoint = "reload" => last'.code \in {400, 500}
            /\ last'.endpoint = "status" => last'.code \in {200, 404}
            /\ transaction_queue' = transaction_queue]_vars

\* A /reload has been answered 500 with two records in the queue, both
\* answered 200 before.
C19_Witness ==
  /\ last.endpoint = "reload" /\ last.code = 500
  /\ Len(transaction_queue) = 2
  /\ served = 2

\* The gateway's reload handler replied to the forward of the invocation.
GatewayReplied ==
  /\ Answered /\ mtrace.posts = 1
  /\ mtrace.wire.kind = "reply"
  /\ mtrace.wire.body # <<>>
  /\ mtrace.wire.body[1].endpoint = "reload"

\* No character of s is a lower-case letter.
NoLowerCase(s) == \A i \in DOMAIN s : \A k \in DOMAIN LowerCase : s[i] # LowerCase[k]

\* C20 (MsgSpec): every request the webhook forwards passes the gateway's
\* validation: the gateway never answers a forward with 400 (or 500), each
\* forward it handles commits exactly one record, and every record so
\* committed has network SMART or GLOBE, an amount in 1..10000 and a promo
\* without lower-case letters.
C20_ForwardsPassIntake ==
  /\ last.endpoint = "reload" => last.code = 200
  /\ Len(transaction_queue) = served
  /\ (Answered /\ mtrace.posts = 1) =>
       Len(transaction_queue) - mtrace.arrived_at \in {0, 1}
  /\ GatewayReplied =>
       /\ mtrace.wire.status = 200
       /\ mresp.code = 200
       /\ Len(transaction_queue) = mtrace.arrived_at + 1
       /\ transaction_queue[Len(transaction_queue)].reference = mtrace.wire.body[1].reference
  /\ \A i \in DOMAIN transaction_queue :
       LET record == transaction_queue[i]
       IN  /\ record.remote_addr = MESSENGER_ADDR
           /\ record.network.t = "str"
           /\ record.network.s \in {<<"S", "M", "A", "R", "T">>, <<"G", "L", "O", "B", "E">>}
           /\ record.amount >= 1 /\ record.amount <= 10000
           /\ record.promo.t = "str" /\ NoLowerCase(record.promo.s)

\* Two forwards were handled by the gateway: a lower-case promo with the
\* largest amount, stored as LOAD50 / GLOBE / 10000, then promo g with the
\* smallest amount, stored as G / SMART / 1 and answered 200.
C20_Witness ==
  /\ GatewayReplied
  /\ Len(transaction_queue) = 2
  /\ transaction_queue[1].promo = JStr(PROMO_LOAD)
  /\ transaction_queue[1].network = JStr(S_GLOBE)
  /\ transaction_queue[1].amount = 10000
  /\ transaction_queue[2].promo = JStr(<<"G">>)
  /\ transaction_queue[2].network = JStr(S_SMART)
  /\ transaction_queue[2].amount = 1

====
